---- MODULE Spec2Model ----
(***************************************************************************)
(* Model of raincoat_takehome_science: read_b_deck (data.py), the grid     *)
(* construction Dataset.from_roi, the per-timestamp wind-field tasks of    *)
(* Dataset.calculate_wind_profile, the radial wind law of path.py, and     *)
(* calculate_swath with the logger's error_handle.                         *)
(*                                                                         *)
(* Number representation.  Floats are modelled in fixed point:             *)
(*   latitude/longitude     tenths of a degree (the b-deck token unit)     *)
(*   wind speeds            micro-m/s  (knots * 514444, knots * 514440)    *)
(*   radii, distances       metres     (miles * 160934 \div 100)           *)
(* A missing cell (pandas NaN) is the value NaN, a cell holding text that  *)
(* is no number is the value Txt.                                          *)
(*                                                                         *)
(* Timestamps are integers m*100 + d*10 + H (month, day, hour of one       *)
(* year): integer order is chronological order.                            *)
(***************************************************************************)
EXTENDS Integers, Sequences, FiniteSets, TLC

VARIABLES
    cli,            \* logger.cli
    input_data,     \* the rows handed to read_b_deck
    roi,            \* cfg.roi        <<min_lat, max_lat, min_lon, max_lon>>
    resolution,     \* cfg.resolution <<res_lat, res_lon>>
    b_deck,         \* the DataFrame read_b_deck returned (a sequence of rows)
    dset,           \* the Dataset object
    delayed_tasks,  \* calculate_wind_profile: the list of delayed tasks
    finished,       \* the scheduler's completed tasks, in completion order
    raised,         \* the task whose exception ended persist(), 0 if none
    pc,             \* position in calculate_swath
    result,         \* what calculate_swath gave its caller
    profile         \* one evaluation of the wind law at a single point

vars == <<cli, input_data, roi, resolution, b_deck, dset,
          delayed_tasks, finished, raised, pc, result, profile>>

----------------------------------------------------------------------------
(* Bounds of the model *)
MaxRows == 3        \* rows in a track
MaxStamp == 1       \* timestamps are Stamp(0) .. Stamp(MaxStamp)
MaxVariant == 1     \* row contents are RowVariant(0) .. RowVariant(MaxVariant)
MaxKnots == 3       \* raw speeds of the parser inputs are 0 .. MaxKnots
MaxExtent == 2      \* ROI corners are -1 .. MaxExtent tenths of a degree
MaxStep == 2        \* resolutions are -1 .. MaxStep tenths of a degree
MaxTenths == 2      \* token magnitudes are 0 .. MaxTenths, and 175 and 655
MaxMiles == 3       \* raw radii of the wind-law inputs are 0 .. MaxMiles

(* Cell values that are no number *)
NaN == -1000000
Txt == -2000000

(* Program constants *)
NumCols == 36
EarthRadiusKm == 6371
Year == 2017

IsNum(v) == v # NaN /\ v # Txt

Range(s) == {s[i] : i \in 1..Len(s)}

Last(s) == s[Len(s)]

RECURSIVE SeqsUpTo(_, _)
SeqsUpTo(S, n) ==
    IF n = 0 THEN {<<>>}
    ELSE LET shorter == SeqsUpTo(S, n - 1)
         IN  shorter \cup {Append(s, x) : s \in {t \in shorter : Len(t) = n - 1}, x \in S}

----------------------------------------------------------------------------
(* data.py: read_b_deck *)

(* Column positions (0-based) of the modelled columns in b_deck_columns. *)
ColOf(name) ==
    CASE name = "YYYYMMDDHH" -> 2
      [] name = "Lat" -> 6
      [] name = "Lon" -> 7
      [] name = "VMAX" -> 8
      [] name = "MSLP" -> 9
      [] name = "RMW" -> 19
      [] name = "SPEED" -> 26

(* pd.read_csv(names=b_deck_columns, usecols=range(36), engine="python"):   *)
(* a row with fewer fields than columns is padded with NaN, fields beyond   *)
(* column 36 are dropped; nothing is raised for either.  A Lat/Lon cell is  *)
(* a token [mag, hemi]; the padded one is NaNToken.                         *)
NaNToken == [mag |-> NaN, hemi |-> "nan"]

Cell(row, name) ==
    IF ColOf(name) < row.nf THEN row[name]
    ELSE IF name \in {"Lat", "Lon"} THEN NaNToken ELSE NaN

(* A column read_csv could not convert to numbers is kept as text (object   *)
(* dtype), every cell of it a string.                                       *)
IsTextColumn(rows, name) == \E i \in 1..Len(rows) : Cell(rows[i], name) = Txt

(* convert_lat_lon: float(s[:-1]) / 10, negated for S and W.  Returns Txt   *)
(* where the Python raises (a NaN cell has no [:-1], text is no float).     *)
convert_lat_lon(tok) ==
    IF tok = NaNToken THEN Txt
    ELSE IF ~IsNum(tok.mag) THEN Txt
    ELSE IF tok.hemi \in {"S", "W"} THEN -tok.mag ELSE tok.mag

(* The unit conversions of lines 110-115, in fixed point. *)
KtsToMsVMAX == 514444
KtsToMsSPEED == 514440
MiToCm == 160934
Scale(v, factor) == IF v = NaN THEN NaN ELSE v * factor
MilesToMetres(v) == IF v = NaN THEN NaN ELSE (v * MiToCm) \div 100

ParseRow(row) ==
    [YYYYMMDDHH |-> Cell(row, "YYYYMMDDHH"),
     Lat   |-> convert_lat_lon(Cell(row, "Lat")),
     Lon   |-> convert_lat_lon(Cell(row, "Lon")),
     VMAX  |-> Scale(Cell(row, "VMAX"), KtsToMsVMAX),
     MSLP  |-> Cell(row, "MSLP"),
     RMW   |-> MilesToMetres(Cell(row, "RMW")),
     SPEED |-> Scale(Cell(row, "SPEED"), KtsToMsSPEED)]

(* read_b_deck: status "ok" with the DataFrame df, or the exception raised. *)
(* "EmptyDataError" is raised by read_csv and goes through error_handle;    *)
(* the others are raised to the caller as they are.                         *)
read_b_deck(rows) ==
    IF Len(rows) = 0
      THEN [status |-> "EmptyDataError", df |-> <<>>]
    ELSE IF \E i \in 1..Len(rows) : ~IsNum(Cell(rows[i], "YYYYMMDDHH"))
      THEN [status |-> "ValueError", df |-> <<>>]
    ELSE IF \E i \in 1..Len(rows) :
              \/ convert_lat_lon(Cell(rows[i], "Lat")) = Txt
              \/ convert_lat_lon(Cell(rows[i], "Lon")) = Txt
      THEN [status |-> "ValueError", df |-> <<>>]
    ELSE IF \E name \in {"VMAX", "SPEED", "RMW"} : IsTextColumn(rows, name)
      THEN [status |-> "TypeError", df |-> <<>>]
    ELSE [status |-> "ok", df |-> [i \in 1..Len(rows) |-> ParseRow(rows[i])]]

----------------------------------------------------------------------------
(* data.py: Dataset.from_roi *)

(* ceil(n / d) for d > 0 *)
CeilDiv(n, d) == -((-n) \div d)

(* np.arange(start, stop, step): ceil((stop - start) / step) values, none   *)
(* when that is not positive; a zero step raises.                           *)
arange_len(start, stop, step) ==
    LET n == IF step > 0 THEN CeilDiv(stop - start, step)
             ELSE CeilDiv(start - stop, -step)
    IN  IF n > 0 THEN n ELSE 0

arange(start, stop, step) ==
    [i \in 1..arange_len(start, stop, step) |-> start + (i - 1) * step]

(* The axes <<min, max, step>> on which the float64 quotient                *)
(* ((max + step) - min) / step rounds to just above the exact quotient, so  *)
(* that np.arange yields one value more than exact arithmetic would.        *)
(* Evaluated in IEEE-754 double arithmetic on min/10, max/10, step/10 for   *)
(* min, max in -1..3 and for the axes 175..185 and -675..-655, with step    *)
(* in {-1, 1, 2, 3}; on no axis of that domain does it yield a value less.  *)
Float64RoundsUp ==
    {<<-1, 1, 1>>, <<0, 2, 1>>, <<1, -1, -1>>, <<1, 1, 2>>, <<1, 1, 3>>,
     <<1, 2, 1>>, <<1, 3, 1>>, <<2, 0, -1>>, <<2, 2, 1>>, <<2, 3, -1>>,
     <<3, 1, 2>>, <<3, 2, 1>>, <<3, 3, 1>>, <<175, 185, 1>>,
     <<-675, -655, 2>>}

(* np.arange(min, max + step, step) as from_roi calls it, in float64 *)
float_arange(min, max, step) ==
    LET n == arange_len(min, max + step, step)
             + (IF <<min, max, step>> \in Float64RoundsUp THEN 1 ELSE 0)
    IN  [i \in 1..n |-> min + (i - 1) * step]

NoDataset ==
    [built |-> FALSE, lat |-> <<>>, lon |-> <<>>, variables |-> {},
     time |-> <<>>, wsp |-> <<>>, attrs |-> {},
     time_min |-> <<>>, time_max |-> <<>>]

(* from_roi(roi, resolution): the Dataset with its "lon" and "lat"          *)
(* coordinates, or the error np.arange raises.                              *)
from_roi(r, res) ==
    IF res[2] = 0 \/ res[1] = 0
      THEN [status |-> "ValueError", ds |-> NoDataset]
      ELSE [status |-> "ok",
            ds |-> [NoDataset EXCEPT
                      !.built = TRUE,
                      !.lon = float_arange(r[3], r[4], res[2]),
                      !.lat = float_arange(r[1], r[2], res[1])]]

----------------------------------------------------------------------------
(* path.py *)

(* floor(sqrt(n)) *)
RECURSIVE isqrt_between(_, _, _)
isqrt_between(n, lo, hi) ==
    IF lo >= hi THEN lo
    ELSE LET mid == (lo + hi + 1) \div 2
         IN  IF mid * mid <= n THEN isqrt_between(n, mid, hi)
             ELSE isqrt_between(n, lo, mid - 1)

isqrt(n) == isqrt_between(n, 0, IF n < 46340 THEN n ELSE 46340)

(* Metres of great circle per tenth of a degree: earth_radius * pi / 1800. *)
MetresPerTenth == (EarthRadiusKm * 31416) \div 18000

(* haversine_distance between (lat1, lon1) and (lat2, lon2), in metres.    *)
(* For the small separations of the model, near the equator, the formula   *)
(* reduces to earth_radius * sqrt(d_lat^2 + d_lon^2); computed to a        *)
(* hundredth of a tenth of a degree.                                       *)
haversine_distance(lat1, lon1, lat2, lon2) ==
    LET d_lat == lat2 - lat1
        d_lon == lon2 - lon1
    IN  (MetresPerTenth * isqrt((d_lat * d_lat + d_lon * d_lon) * 10000)) \div 100

(* x * num / den without overflow, for 0 <= num <= den = 1000 *)
MulRatio(x, num) == (x \div 1000) * num + ((x % 1000) * num) \div 1000

(* lines 40-41: the two masks.  A comparison with a NaN operand is False.  *)
mask_radius_leq(radius, max_wind_radius) ==
    max_wind_radius # NaN /\ radius <= max_wind_radius

mask_radius_gt(radius, max_wind_radius) ==
    ~mask_radius_leq(radius, max_wind_radius)

(* lines 43-45: max_wind * (radius / max_wind_radius) ** (3 / 2); 0/0 and   *)
(* a NaN operand give NaN                                                   *)
near_wind(max_wind, max_wind_radius, radius) ==
    IF max_wind_radius = 0 \/ max_wind = NaN THEN NaN
    ELSE LET q == (radius * 1000) \div max_wind_radius
         IN  MulRatio(max_wind, (q * isqrt(q * 1000)) \div 1000)

(* Mutant of far_wind: the ratio inverted, radius / max_wind_radius *)
far_wind_inverted(max_wind, max_wind_radius, radius) ==
    IF max_wind_radius = NaN \/ max_wind_radius <= 0 \/ max_wind = NaN THEN NaN
    ELSE LET q == (radius * 1000) \div max_wind_radius
         IN  MulRatio(max_wind, isqrt(q * 1000))

(* lines 46-48: max_wind * (max_wind_radius / radius) ** (1 / 2); the root  *)
(* of a negative number and a NaN operand give NaN                          *)
far_wind(max_wind, max_wind_radius, radius) ==
    IF max_wind_radius = NaN \/ max_wind_radius < 0 \/ max_wind = NaN THEN NaN
    ELSE LET q == (max_wind_radius * 1000) \div radius
         IN  MulRatio(max_wind, isqrt(q * 1000))

(* line 42: a cell of np.empty_like(radius) that no mask assigns *)
Unset == -3000000

(* One grid point of calculate_wind_at_given_distance: result[mask_leq] is *)
(* assigned first, result[mask_gt] after it.                                *)
wind_speed(max_wind, max_wind_radius, radius) ==
    LET near == IF mask_radius_leq(radius, max_wind_radius)
                  THEN near_wind(max_wind, max_wind_radius, radius)
                  ELSE Unset
    IN  IF mask_radius_gt(radius, max_wind_radius)
          THEN far_wind(max_wind, max_wind_radius, radius)
          ELSE near

(* calculate_wind_at_given_distance over the grid loc = meshgrid(lat, lon) *)
calculate_wind_at_given_distance(max_wind, max_wind_radius, lat, lon, centre) ==
    [i \in 1..Len(lat) |->
        [j \in 1..Len(lon) |->
            wind_speed(max_wind, max_wind_radius,
                       haversine_distance(lat[i], lon[j], centre[1], centre[2]))]]

----------------------------------------------------------------------------
(* data.py: Dataset.calculate_wind_profile *)

(* Mutant of unique: keeps every value, repeated ones too *)
unique_keeps_repeats(s) == s

(* Series.unique(): the distinct values in order of first appearance *)
RECURSIVE unique(_)
unique(s) ==
    IF Len(s) = 0 THEN <<>>
    ELSE LET front == unique(SubSeq(s, 1, Len(s) - 1))
         IN  IF Last(s) \in Range(front) THEN front ELSE Append(front, Last(s))

(* sorted(): ascending, by insertion *)
RECURSIVE sorted(_)
sorted(s) ==
    IF Len(s) = 0 THEN <<>>
    ELSE LET rest == sorted(SubSeq(s, 1, Len(s) - 1))
             x == Last(s)
             k == Cardinality({i \in 1..Len(rest) : rest[i] <= x})
         IN  SubSeq(rest, 1, k) \o <<x>> \o SubSeq(rest, k + 1, Len(rest))

Column(df, name) == [i \in 1..Len(df) |-> df[i][name]]

(* b_deck.loc[b_deck["YYYYMMDDHH"] == time]: the rows of that time, in the  *)
(* DataFrame's order                                                       *)
RowsAt(df, time) == SelectSeq(df, LAMBDA row : row.YYYYMMDDHH = time)

(* Mutant of SelectCell: .values[0], the first row selected *)
SelectFirstCell(df, time, name) == RowsAt(df, time)[1][name]

(* [...]["VMAX"].values[-1] and the like: the cell of the last row selected *)
SelectCell(df, time, name) == Last(RowsAt(df, time))[name]

(* line 176 *)
Times(df) == sorted(unique(Column(df, "YYYYMMDDHH")))

(* lines 197-203: one delayed task per time, with the storm centre bound    *)
(* when the task is created                                                 *)
DelayedTasks(df) ==
    LET times == Times(df)
    IN  [t \in 1..Len(times) |->
            [time |-> times[t],
             lat_lon |-> <<SelectCell(df, times[t], "Lat"),
                           SelectCell(df, times[t], "Lon")>>]]

(* Mutant of calculate_wind_speed: the tasks share one output buffer, the   *)
(* list wind_speed of line 177, and a task returns what is already in it    *)
calculate_wind_speed_shared(df, ds, task) ==
    LET max_wind == SelectCell(df, task.time, "VMAX")
        wind_radius == SelectCell(df, task.time, "RMW")
    IN  [max_wind |-> max_wind,
         wind_radius |-> wind_radius,
         field |-> IF finished # <<>> THEN finished[1].field
                   ELSE calculate_wind_at_given_distance(
                            max_wind, wind_radius, ds.lat, ds.lon, task.lat_lon)]

(* lines 181-194: what a task computes when the scheduler runs it *)
calculate_wind_speed(df, ds, task) ==
    LET max_wind == SelectCell(df, task.time, "VMAX")
        wind_radius == SelectCell(df, task.time, "RMW")
    IN  [max_wind |-> max_wind,
         wind_radius |-> wind_radius,
         field |-> calculate_wind_at_given_distance(
                       max_wind, wind_radius, ds.lat, ds.lon, task.lat_lon)]

(* The array of task t once computed *)
Computed(done, t) == (CHOOSE e \in Range(done) : e.task = t).field

(* Mutant of Stack: the arrays in the order the tasks completed *)
StackByCompletion(tasks, done) == [t \in 1..Len(tasks) |-> done[t].field]

(* lines 206-213: dask.array.stack over the list of tasks: slice t is the   *)
(* array of delayed_tasks[t]                                                *)
Stack(tasks, done) == [t \in 1..Len(tasks) |-> Computed(done, t)]

(* Timestamp fields and strftime *)
Stamp(i) == 100 * (1 + (i \div 2)) + 10 + (i % 2)
Month(t) == t \div 100
Day(t) == (t \div 10) % 10
Hour(t) == t % 10
Minute(t) == 0

(* strftime("%Y%M%dT%H%M"): year, minute, day, "T", hour, minute *)
strftime(t) == <<Year, Minute(t), Day(t), Hour(t), Minute(t)>>

(* lines 235-236 *)
TimeMaxAttr(time_index) == strftime(time_index[1])
TimeMinAttr(time_index) == strftime(Last(time_index))

(* __init__.py lines 40-43: the name of the output file under netcdf_dir *)
file_name(time_min, time_max) ==
    <<"swath_output_", time_min, "-", time_max, ".nc">>

----------------------------------------------------------------------------
(* Mutant of error_handle: outside the CLI the error is only logged *)
error_handle_logs_only(is_cli) == IF is_cli THEN "SystemExit" ELSE "none"

(* utils.py: _Logger.error_handle always raises: SystemExit(1) when         *)
(* logger.cli is set, the exception it was given otherwise.                 *)
error_handle(is_cli) == IF is_cli THEN "SystemExit" ELSE "exception"

----------------------------------------------------------------------------
(* Inputs *)

Stamps == {Stamp(i) : i \in 0..MaxStamp}

(* The contents of a track row: position, intensity and size all differ     *)
(* from one variant to the next; variant 0 has a zero RMW.                  *)
RowVariant(k, time) ==
    [nf |-> NumCols,
     YYYYMMDDHH |-> time,
     Lat |-> [mag |-> k, hemi |-> "N"],
     Lon |-> [mag |-> k, hemi |-> IF k % 3 = 2 THEN "W" ELSE "E"],
     VMAX |-> 30 + 35 * k,
     MSLP |-> 1010 - k,
     RMW |-> 10 * k,
     SPEED |-> 5 + k]

TrackRows == {RowVariant(k, t) : k \in 0..MaxVariant, t \in Stamps}

TrackInputs == SeqsUpTo(TrackRows, MaxRows)

(* Tracks for the interleavings of the tasks alone: every assignment of    *)
(* timestamps to the rows, the contents of a row following its position     *)
TaskInputs ==
    UNION {{[k \in 1..n |-> RowVariant(k % (MaxVariant + 1), f[k])] :
               f \in [1..n -> Stamps]} : n \in 1..MaxRows}

(* Rows for the parser alone: short rows (7 fields: no Lon; 20 fields: no  *)
(* SPEED), text where a number belongs, and every pair of raw speeds       *)
GoodRow == RowVariant(1, Stamp(0))

DeckRows ==
    {[GoodRow EXCEPT !.nf = n, !.VMAX = v, !.SPEED = sp, !.MSLP = p] :
        n \in {7, 20, NumCols},
        v \in (0..MaxKnots) \cup {Txt},
        sp \in (0..MaxKnots) \cup {Txt},
        p \in {1010, Txt}}

(* The first row of an input is full width: read_csv sizes the table on it *)
(* and what it does with a short first row differs between pandas          *)
(* versions.                                                               *)
DeckInputs ==
    {<<>>} \cup {<<r>> : r \in {x \in DeckRows : x.nf = NumCols}}
           \cup {<<GoodRow, r>> : r \in DeckRows}
           \cup {<<r, GoodRow>> : r \in {x \in DeckRows : x.nf = NumCols}}

(* Lat/Lon tokens for the parser alone: every magnitude with each of the   *)
(* four hemisphere letters and with a letter that is none of them          *)
CoordTokens ==
    {[mag |-> m, hemi |-> h] :
        m \in (0..MaxTenths) \cup {175, 655}, h \in {"N", "S", "E", "W", "X"}}

CoordInputs ==
    {<<[GoodRow EXCEPT !.Lat = la, !.Lon = lo]>> : la \in CoordTokens, lo \in CoordTokens}

(* Regions and resolutions for the grid alone *)
Regions ==
    {<<a, b, c, d>> : a \in -1..MaxExtent, b \in -1..MaxExtent,
                      c \in -1..MaxExtent, d \in -1..MaxExtent}
Resolutions == {<<x, y>> : x \in -1..MaxStep, y \in -1..MaxStep}

(* The region of the tests' configuration: 17.5..18.5 N, 67.5..65.5 W *)
ExampleRegion == <<175, 185, -675, -655>>

(* Regions and resolutions of the build, in tenths of a degree *)
BuildRegions == {<<0, 1, 0, 1>>}
BuildResolutions == {<<1, 1>>, <<0, 1>>}

(* Inputs of the wind law alone: intensities, radii of maximum wind (zero  *)
(* and missing among them) and distances at, next to and away from them    *)
Winds == {Scale(k, KtsToMsVMAX) : k \in 0..MaxKnots} \cup {NaN}
Radii == {MilesToMetres(m) : m \in 0..MaxMiles} \cup {NaN}
Distances ==
    {d \in UNION {{x - 1, x, x + 1} : x \in Radii \ {NaN}} : d >= 0}
        \cup {MetresPerTenth * k : k \in 0..MaxExtent}

NoProfile ==
    [evaluated |-> FALSE, max_wind |-> 0, max_wind_radius |-> 0, radius |-> 0,
     leq |-> FALSE, gt |-> FALSE, value |-> 0]

----------------------------------------------------------------------------
(* __init__.py: calculate_swath *)

Init ==
    /\ cli \in BOOLEAN
    /\ input_data = <<>>
    /\ roi = <<>>
    /\ resolution = <<>>
    /\ b_deck = <<>>
    /\ dset = NoDataset
    /\ delayed_tasks = <<>>
    /\ finished = <<>>
    /\ raised = 0
    /\ pc = "read_b_deck"
    /\ result = "none"
    /\ profile = NoProfile

(* line 32: deck_data = read_b_deck(...).  It is outside the try: what it   *)
(* raises reaches the caller as raised.                                     *)
ReadBDeck(inputs) ==
    /\ pc = "read_b_deck"
    /\ \E rows \in inputs :
          LET r == read_b_deck(rows)
          IN  /\ input_data' = rows
              /\ b_deck' = r.df
              /\ pc' = IF r.status = "ok" THEN "from_roi" ELSE "failed"
              /\ result' = IF r.status = "ok" THEN "none"
                           ELSE IF r.status = "EmptyDataError" THEN error_handle(cli)
                           ELSE "exception"
    /\ UNCHANGED <<cli, roi, resolution, dset, delayed_tasks, finished, raised, profile>>

(* line 36: dset = Dataset.from_roi(cfg.roi, cfg.resolution), in the try *)
FromRoi(regions, resolutions) ==
    /\ pc = "from_roi"
    /\ \E r \in regions, res \in resolutions :
          LET g == from_roi(r, res)
          IN  /\ roi' = r
              /\ resolution' = res
              /\ dset' = g.ds
              /\ pc' = IF g.status = "ok" THEN "calculate_wind_profile" ELSE "failed"
              /\ result' = IF g.status = "ok" THEN "none" ELSE error_handle(cli)
    /\ UNCHANGED <<cli, input_data, b_deck, delayed_tasks, finished, raised, profile>>

(* calculate_wind_profile, lines 175-224: the tasks are created, stacked    *)
(* lazily, and the "time" coordinate is attached                            *)
BuildGraph ==
    /\ pc = "calculate_wind_profile"
    /\ delayed_tasks' = DelayedTasks(b_deck)
    /\ dset' = [dset EXCEPT !.time = Times(b_deck),
                            !.variables = @ \cup {"time"}]
    /\ pc' = "persist"
    /\ UNCHANGED <<cli, input_data, roi, resolution, b_deck, finished, raised, result, profile>>

Pending == {t \in 1..Len(delayed_tasks) : \A e \in Range(finished) : e.task # t}

(* line 226, persist(): the scheduler runs the tasks in any order *)
RunTask(t) ==
    /\ pc = "persist"
    /\ t \in Pending
    /\ finished' = Append(finished,
                     [task |-> t] @@ calculate_wind_speed(b_deck, dset, delayed_tasks[t]))
    /\ UNCHANGED <<cli, input_data, roi, resolution, b_deck, dset, delayed_tasks,
                   raised, pc, result, profile>>

(* line 226: a task raises; persist() re-raises in calculate_wind_profile,  *)
(* and the except of calculate_swath (lines 38-39) hands it to error_handle *)
TaskRaises(t) ==
    /\ pc = "persist"
    /\ t \in Pending
    /\ raised' = t
    /\ pc' = "failed"
    /\ result' = error_handle(cli)
    /\ UNCHANGED <<cli, input_data, roi, resolution, b_deck, dset, delayed_tasks,
                   finished, profile>>

(* lines 225-236, then calculate_swath lines 40-46: every task has          *)
(* finished; "wsp" and the attributes are attached and dset is returned     *)
Finish ==
    /\ pc = "persist"
    /\ Pending = {}
    /\ dset' = [dset EXCEPT !.wsp = Stack(delayed_tasks, finished),
                            !.variables = @ \cup {"wsp"},
                            !.time_max = TimeMaxAttr(dset.time),
                            !.time_min = TimeMinAttr(dset.time),
                            !.attrs = @ \cup {"time_max", "time_min", "file_name"}]
    /\ pc' = "done"
    /\ result' = "dataset"
    /\ UNCHANGED <<cli, input_data, roi, resolution, b_deck, delayed_tasks,
                   finished, raised, profile>>

(* path.py lines 39-49 at one grid point: the masks and the value assigned *)
EvalWind ==
    /\ ~profile.evaluated
    /\ \E mw \in Winds, r \in Radii, d \in Distances :
          profile' = [evaluated |-> TRUE,
                      max_wind |-> mw,
                      max_wind_radius |-> r,
                      radius |-> d,
                      leq |-> mask_radius_leq(d, r),
                      gt |-> mask_radius_gt(d, r),
                      value |-> wind_speed(mw, r, d)]
    /\ UNCHANGED <<cli, input_data, roi, resolution, b_deck, dset, delayed_tasks,
                   finished, raised, pc, result>>

Next ==
    \/ ReadBDeck(TrackInputs)
    \/ FromRoi(BuildRegions, BuildResolutions)
    \/ BuildGraph
    \/ \E t \in 1..Len(delayed_tasks) : RunTask(t)
    \/ \E t \in 1..Len(delayed_tasks) : TaskRaises(t)
    \/ Finish

Spec == Init /\ [][Next]_vars

(* the build over the tracks of TaskInputs *)
NextTasks ==
    \/ ReadBDeck(TaskInputs)
    \/ FromRoi(BuildRegions, BuildResolutions)
    \/ BuildGraph
    \/ \E t \in 1..Len(delayed_tasks) : RunTask(t)
    \/ \E t \in 1..Len(delayed_tasks) : TaskRaises(t)
    \/ Finish

SpecTasks == Init /\ [][NextTasks]_vars

(* read_b_deck alone, over well-formed and malformed inputs *)
NextDeck == ReadBDeck(DeckInputs)

SpecDeck == Init /\ [][NextDeck]_vars

(* read_b_deck alone, over the Lat/Lon tokens *)
NextCoord == ReadBDeck(CoordInputs)

SpecCoord == Init /\ [][NextCoord]_vars

(* from_roi alone, over valid and invalid regions, after a one-row track *)
NextRoi ==
    \/ ReadBDeck({<<GoodRow>>})
    \/ FromRoi(Regions \cup {ExampleRegion}, Resolutions)

SpecRoi == Init /\ [][NextRoi]_vars

(* the wind law alone *)
NextWind == EvalWind

SpecWind == Init /\ [][NextWind]_vars

----------------------------------------------------------------------------
(* Properties of the build (specification Spec) *)

(* The distinct timestamps of the track, and the i-th smallest of them *)
TrackTimes == {b_deck[k].YYYYMMDDHH : k \in 1..Len(b_deck)}
IthSmallest(S, i) == CHOOSE x \in S : Cardinality({y \in S : y < x}) = i - 1

(* The array the scheduler computed for the task of a given timestamp *)
FieldAt(time) ==
    (CHOOSE e \in Range(finished) : delayed_tasks[e.task].time = time).field

(* The last row of b_deck, in input order, that carries a given timestamp *)
LastRowAt(time) ==
    b_deck[CHOOSE k \in 1..Len(b_deck) :
              /\ b_deck[k].YYYYMMDDHH = time
              /\ \A m \in (k + 1)..Len(b_deck) : b_deck[m].YYYYMMDDHH # time]

(* C1: whatever the order in which the tasks completed, slice i of "wsp"    *)
(* is the field computed for the i-th smallest distinct timestamp.          *)
C1_StackedInTimestampOrder ==
    pc = "done" =>
        /\ Len(dset.wsp) = Cardinality(TrackTimes)
        /\ \A i \in 1..Cardinality(TrackTimes) :
              dset.wsp[i] = FieldAt(IthSmallest(TrackTimes, i))

(* Two tasks completed in the reverse of timestamp order, with different    *)
(* fields, and the build returned.                                          *)
C1_Witness ==
    /\ pc = "done"
    /\ Len(finished) >= 2
    /\ finished[1].task > finished[2].task
    /\ finished[1].field # finished[2].field

(* C2: after a successful build the time axis is strictly increasing and    *)
(* holds exactly the distinct timestamps of the track, and "wsp" has shape  *)
(* (distinct timestamps, latitudes, longitudes).                            *)
C2_TimeAxisAndShape ==
    pc = "done" =>
        /\ "time" \in dset.variables /\ "wsp" \in dset.variables
        /\ \A i \in 1..(Len(dset.time) - 1) : dset.time[i] < dset.time[i + 1]
        /\ Range(dset.time) = TrackTimes
        /\ Len(dset.wsp) = Cardinality(TrackTimes)
        /\ \A i \in 1..Len(dset.wsp) :
              /\ Len(dset.wsp[i]) = Len(dset.lat)
              /\ \A j \in 1..Len(dset.lat) : Len(dset.wsp[i][j]) = Len(dset.lon)

(* A track of three rows, two of them sharing a timestamp, was built. *)
C2_Witness ==
    /\ pc = "done"
    /\ Cardinality(TrackTimes) >= 2
    /\ Len(b_deck) > Cardinality(TrackTimes)

(* C3: the centre, VMAX and RMW a task used all come from the last row, in  *)
(* input order, that carries the task's timestamp, and its field is the     *)
(* one computed from them.                                                  *)
C3_DrivingRecordIsLastRow ==
    \A e \in Range(finished) :
        LET task == delayed_tasks[e.task]
            row == LastRowAt(task.time)
        IN  /\ task.lat_lon = <<row.Lat, row.Lon>>
            /\ e.max_wind = row.VMAX
            /\ e.wind_radius = row.RMW
            /\ e.field = calculate_wind_at_given_distance(
                             row.VMAX, row.RMW, dset.lat, dset.lon, <<row.Lat, row.Lon>>)

(* A task ran for a timestamp carried by two rows that differ in latitude, *)
(* longitude, VMAX and RMW.                                                 *)
C3_Witness ==
    \E e \in Range(finished) :
        \E k, m \in 1..Len(b_deck) :
            /\ k < m
            /\ b_deck[k].YYYYMMDDHH = delayed_tasks[e.task].time
            /\ b_deck[m].YYYYMMDDHH = delayed_tasks[e.task].time
            /\ b_deck[k].Lat # b_deck[m].Lat
            /\ b_deck[k].Lon # b_deck[m].Lon
            /\ b_deck[k].VMAX # b_deck[m].VMAX
            /\ b_deck[k].RMW # b_deck[m].RMW

(* C4 (as claimed): time_min is the label of the earliest timestamp and     *)
(* time_max the label of the latest.                                        *)
C4_TimeMinEarliestTimeMaxLatest ==
    pc = "done" =>
        /\ dset.time_min = strftime(IthSmallest(TrackTimes, 1))
        /\ dset.time_max = strftime(IthSmallest(TrackTimes, Cardinality(TrackTimes)))

C6_FailureLeavesDatasetUntouched ==
    raised # 0 => dset.variables = {} /\ dset.attrs = {}

(* C9 (as claimed): no task evaluates the wind law with a radius of         *)
(* maximum wind that is not positive.                                       *)
C9_NonPositiveRadiusRejected ==
    \A e \in Range(finished) : e.wind_radius > 0

(* The sorted time axes of other builds: timestamps in the months this     *)
(* build can have and in the months after them                              *)
OtherStamps == {Stamp(i) : i \in 0..(2 * MaxStamp + 1)}
OtherTimeAxes ==
    {<<t>> : t \in OtherStamps}
        \cup {<<t1, t2>> \in OtherStamps \X OtherStamps : t1 < t2}

(* C16 (as claimed): a build whose track differs from this one in its      *)
(* earliest or latest timestamp gets another output file name.              *)
C16_DifferentEndsDifferentFileNames ==
    pc = "done" =>
        \A other \in OtherTimeAxes :
            <<other[1], Last(other)>> # <<dset.time[1], Last(dset.time)>>
                => file_name(TimeMinAttr(other), TimeMaxAttr(other))
                       # file_name(dset.time_min, dset.time_max)

(* C13 (as claimed): every value of the wind field of a successful build   *)
(* is a defined number that is not negative.                                *)
C13_FieldDefinedNonNegative ==
    pc = "done" =>
        \A t \in 1..Len(dset.wsp) :
            \A i \in 1..Len(dset.lat) :
                \A j \in 1..Len(dset.lon) :
                    dset.wsp[t][i][j] # NaN /\ dset.wsp[t][i][j] >= 0

----------------------------------------------------------------------------
(* Properties of read_b_deck (specification SpecDeck) *)

Malformed(row) ==
    \/ row.nf < NumCols
    \/ \E name \in {"YYYYMMDDHH", "VMAX", "MSLP", "RMW", "SPEED"} : row[name] = Txt

(* C7 (as claimed): an input with a row of fewer than 36 fields, or with    *)
(* text in a numeric field, makes read_b_deck raise, and no rows are        *)
(* returned.                                                                *)
C7_MalformedRowAbortsParse ==
    (pc # "read_b_deck" /\ \E i \in 1..Len(input_data) : Malformed(input_data[i]))
        => pc = "failed" /\ b_deck = <<>>

(* C10 (as claimed): a row whose raw VMAX and SPEED are the same number is  *)
(* returned with equal VMAX and SPEED.                                      *)
C10_OneKnotFactor ==
    pc = "from_roi" =>
        \A i \in 1..Len(b_deck) :
            (/\ input_data[i].nf = NumCols
             /\ input_data[i].VMAX = input_data[i].SPEED)
                => b_deck[i].VMAX = b_deck[i].SPEED

----------------------------------------------------------------------------
(* Properties of convert_lat_lon (specification SpecCoord) *)

Signed(tok) == IF tok.hemi \in {"S", "W"} THEN -tok.mag ELSE tok.mag

(* C11 (as claimed): a token <magnitude><hemisphere> with hemisphere N, S,  *)
(* E or W is parsed to magnitude/10, negated exactly for S and W (the unit  *)
(* here is the tenth of a degree); a token ending in any other character    *)
(* makes the parse fail.                                                    *)
C11_HemisphereParsedOrRejected ==
    pc # "read_b_deck" =>
        \A i \in 1..Len(input_data) :
            LET la == input_data[i].Lat
                lo == input_data[i].Lon
            IN  IF la.hemi \in {"N", "S", "E", "W"} /\ lo.hemi \in {"N", "S", "E", "W"}
                  THEN /\ pc = "from_roi"
                       /\ b_deck[i].Lat = Signed(la)
                       /\ b_deck[i].Lon = Signed(lo)
                  ELSE pc = "failed"

----------------------------------------------------------------------------
(* Properties of Dataset.from_roi (specification SpecRoi) *)

InvalidRegion(r, res) ==
    \/ res[1] <= 0 \/ res[2] <= 0
    \/ r[1] >= r[2] \/ r[3] >= r[4]

StrictlyIncreasing(s) == \A i \in 1..(Len(s) - 1) : s[i] < s[i + 1]

(* C8 (as claimed): from_roi raises and builds no grid when a resolution    *)
(* is <= 0 or min >= max on an axis; a grid it returns has non-empty,       *)
(* strictly increasing latitudes and longitudes.                            *)
C8_InvalidRegionRejected ==
    /\ (roi # <<>> /\ InvalidRegion(roi, resolution))
          => pc = "failed" /\ ~dset.built
    /\ dset.built =>
          /\ Len(dset.lat) > 0 /\ Len(dset.lon) > 0
          /\ StrictlyIncreasing(dset.lat) /\ StrictlyIncreasing(dset.lon)

(* C12 (as claimed): on an axis whose extent max - min is a whole multiple  *)
(* n of a positive resolution, from_roi builds exactly n + 1 points, the    *)
(* first at min and the last at max.                                        *)
WholeAxis(min, max, step, axis) ==
    (step > 0 /\ min < max /\ (max - min) % step = 0)
        => /\ Len(axis) = (max - min) \div step + 1
           /\ axis[1] = min
           /\ Last(axis) = max

C12_WholeMultipleGivesNPlusOnePoints ==
    dset.built =>
        /\ WholeAxis(roi[1], roi[2], resolution[1], dset.lat)
        /\ WholeAxis(roi[3], roi[4], resolution[2], dset.lon)

----------------------------------------------------------------------------
(* Properties of the wind law (specification SpecWind) *)

(* C14: a point is assigned by exactly one of the two branches; with        *)
(* max_wind > 0 and max_wind_radius > 0 the value at distance               *)
(* max_wind_radius is exactly max_wind, and no distance gives more.         *)
C14_BranchesPartitionPeakAtRadius ==
    profile.evaluated =>
        /\ profile.leq # profile.gt
        /\ profile.value # Unset
        /\ (/\ profile.max_wind # NaN /\ profile.max_wind > 0
            /\ profile.max_wind_radius # NaN /\ profile.max_wind_radius > 0)
              => /\ profile.radius = profile.max_wind_radius
                       => profile.value = profile.max_wind
                 /\ profile.value # NaN
                 /\ profile.value <= profile.max_wind

(* The law was evaluated at distance max_wind_radius exactly, with          *)
(* positive intensity and radius.                                           *)
C14_Witness ==
    /\ profile.evaluated
    /\ profile.max_wind > 0
    /\ profile.max_wind_radius > 0
    /\ profile.radius = profile.max_wind_radius
    /\ profile.leq

----------------------------------------------------------------------------
(* Properties of the interleavings of the tasks (specification SpecTasks) *)

(* The field of task t computed on its own from the track as it was parsed *)
(* and the grid as it was built, before any task ran                        *)
FieldInIsolation(t) ==
    LET df == read_b_deck(input_data).df
        grid == from_roi(roi, resolution).ds
        time == Times(df)[t]
    IN  calculate_wind_at_given_distance(
            SelectCell(df, time, "VMAX"), SelectCell(df, time, "RMW"),
            grid.lat, grid.lon,
            <<SelectCell(df, time, "Lat"), SelectCell(df, time, "Lon")>>)

(* C15: under every interleaving of the tasks the track records and the    *)
(* grid's latitudes and longitudes stay as they were before                 *)
(* calculate_wind_profile, and the field of each task is the one it         *)
(* computes on its own, whichever tasks ran before it.                      *)
C15_TasksShareOnlyReadOnlyInputs ==
    pc \in {"persist", "done"} \/ raised # 0 =>
        /\ b_deck = read_b_deck(input_data).df
        /\ dset.lat = from_roi(roi, resolution).ds.lat
        /\ dset.lon = from_roi(roi, resolution).ds.lon
        /\ \A k \in 1..Len(finished) :
              finished[k].field = FieldInIsolation(finished[k].task)

(* Two tasks with different fields completed in timestamp order over a     *)
(* track of MaxRows rows.                                                   *)
C15_Witness ==
    /\ pc = "done"
    /\ Len(b_deck) = MaxRows
    /\ Len(finished) >= 2
    /\ finished[1].task < finished[2].task
    /\ finished[1].field # finished[2].field

====
